---- MODULE Spec2Model ----
\* SIAS attendance backend (src/main.py): the document store, the admin
\* sessions and the request handlers, one action per handler.
EXTENDS Integers, Sequences, FiniteSets, TLC

VARIABLES
    kelas,          \* db.kelas: documents in natural (insertion) order
    siswa,          \* db.siswa
    absensi,        \* db.absensi
    admin,          \* db.admin
    admin_sessions, \* db.admin_sessions
    inflight,       \* the requests in progress (check-in, delete_kelas), by client
    oid,            \* number of ObjectIds generated so far (inserted _id values)
    tokens,         \* number of uuid4 session tokens generated so far
    req,            \* the last request: its handler and the inputs it was given
    resp,           \* the response to the last request
    writes          \* the store write calls the last request issued, in order

vars == <<kelas, siswa, absensi, admin, admin_sessions, inflight, oid, tokens, req, resp,
          writes>>
store == <<kelas, siswa, absensi>>

\* ---------------------------------------------------------------- bounds
MaxDay == 2
MaxAbsensi == 2
MaxTokens == 1
MaxOid == 4
MaxClients == 2

\* ---------------------------------------------------------------- values
\* Python None, for string-valued and for date-valued fields.
None == "<None>"
NoDate == -1
NoDoc == [none |-> TRUE]

\* Strings that hold a date are modelled by integers that keep the order of
\* the strings: 0 is "", 1 is a string that is no date ("0000"),
\* 2*d is the ISO form of day d ("2024-01-0d") and 2*d+1 is day d followed by
\* a time ("2024-01-0dT00:00"), which datetime.fromisoformat accepts too.
Iso(d) == 2 * d
IsoT(d) == 2 * d + 1
CanParse(s) == s >= 2
FromIso(s) == s \div 2
Days == 1 .. MaxDay
IsoDays == {Iso(d) : d \in Days}

\* Strings that hold an id are modelled by integers: 0 is "", 1 is a string
\* that is no ObjectId and 2*n is str(ObjectId n), its canonical hex string.
StrOid(n) == 2 * n
NoId == -1

Times == {"07:00", "07:30"}
Statuses == {"Hadir", "Sakit", "Izin", "Alpha"}

Max(a, b) == IF a >= b THEN a ELSE b

\* ------------------------------------------------------- the document store
\* dict.get(key, default)
Get(d, f, default) == IF f \in DOMAIN d THEN d[f] ELSE default

\* {"$setOnInsert": upd}: the fields a document has are kept.
SetOnInsertOnly(d, upd) ==
    [f \in (DOMAIN d) \cup (DOMAIN upd) |-> IF f \in DOMAIN d THEN d[f] ELSE upd[f]]

\* {"$set": upd} applied to a document.
SetFields(d, upd) ==
    [f \in (DOMAIN d) \cup (DOMAIN upd) |-> IF f \in DOMAIN upd THEN upd[f] ELSE d[f]]

\* delete_one: the collection without its document at index i.
RemoveAt(coll, i) == SubSeq(coll, 1, i - 1) \o SubSeq(coll, i + 1, Len(coll))

\* A document matches a filter of equality conditions when it has every
\* field of the filter with the filter's value; the empty filter matches all.
Matches(a, f) == \A k \in DOMAIN f : k \in DOMAIN a /\ a[k] = f[k]

\* The index of the first match in natural order, 0 when there is none.
RECURSIVE FirstFrom(_, _, _)
FirstFrom(coll, f, i) ==
    IF i > Len(coll) THEN 0
    ELSE IF Matches(coll[i], f) THEN i ELSE FirstFrom(coll, f, i + 1)

First(coll, f) == FirstFrom(coll, f, 1)

\* The index of the last match in natural order, 0 when there is none: the
\* entry a dict built from the matches in order ends up holding.
RECURSIVE LastFrom(_, _, _)
LastFrom(coll, f, i) ==
    IF i = 0 THEN 0
    ELSE IF Matches(coll[i], f) THEN i ELSE LastFrom(coll, f, i - 1)

Last(coll, f) == LastFrom(coll, f, Len(coll))

\* find_one: the first match in natural order.
FindOne(coll, f) ==
    LET i == First(coll, f) IN IF i = 0 THEN NoDoc ELSE coll[i]

\* find: every match, in natural order.
Find(coll, f) ==
    LET Match(a) == Matches(a, f) IN SelectSeq(coll, Match)

\* An insert whatever the collection holds.
UpsertAlwaysInsert(coll, filterDoc, upd) ==
    Append(coll, SetFields(filterDoc, upd))

\* update_one(filter, {"$set": upd}, upsert=True): the first match gets the
\* fields of upd; with no match, a document of the filter's equality fields
\* and upd is inserted.
UpdateOneUpsert(coll, filterDoc, upd) ==
    LET i == First(coll, filterDoc)
    IN  IF i = 0
        THEN Append(coll, SetFields(filterDoc, upd))
        ELSE [coll EXCEPT ![i] = SetFields(coll[i], upd)]

\* One entry of the log of write calls: the collection, the call and whether
\* the call's filter matched a document (an upsert that matched updates it,
\* one that did not inserts).
W(coll, call, matched) == [coll |-> coll, call |-> call, matched |-> matched]

\* ------------------------------------------------------------------- Init
\* The clients whose check-ins may be in progress at once; a client with no
\* request in progress.
Clients == 1 .. MaxClients
Idle == [pc |-> "idle"]

Init ==
    /\ kelas = <<>>
    /\ siswa = <<>>
    /\ absensi = <<>>
    /\ admin = <<>>
    /\ admin_sessions = <<>>
    /\ inflight = [c \in Clients |-> Idle]
    /\ oid = 0
    /\ tokens = 0
    /\ req = [op |-> "none"]
    /\ resp = [code |-> 0]
    /\ writes = <<>>

\* --------------------------------------------------------------- helpers
\* objid / str: an id string 2*n is the canonical string of ObjectId n.
objid(id_str) == id_str \div 2
\* ObjectId(id_str) raises for a string that is not 24 hex digits; it takes
\* the digits in either case, and str() gives them back in lower case:
\* 2*n+1 is the hex string of ObjectId n written in upper case.
IsOid(id_str) == id_str >= 2
UpperOid(n) == 2 * n + 1

\* bcrypt.hash / bcrypt.verify: a hash verifies exactly its own password.
BcryptHash(pw) == [bcrypt |-> pw]
BcryptVerify(pw, hash) == hash = BcryptHash(pw)

\* require_admin. authorization is 0 for a missing or non-bearer header and
\* t >= 1 for "Bearer <token t>"; expired is the outcome of
\* datetime.utcnow() > sess["expires_at"] at this request. Gives the status
\* code, the sessions left and the store writes issued (the expired
\* session is deleted).
\* A guard that lets every request with a bearer token pass.
require_admin_any_token(authorization, expired) ==
    IF authorization = 0
    THEN [code |-> 401, detail |-> "Unauthorized", sessions |-> admin_sessions, writes |-> <<>>]
    ELSE [code |-> 200, detail |-> "ok", sessions |-> admin_sessions, writes |-> <<>>]

require_admin(authorization, expired) ==
    IF authorization = 0
    THEN [code |-> 401, detail |-> "Unauthorized", sessions |-> admin_sessions, writes |-> <<>>]
    ELSE LET sess == FindOne(admin_sessions, [token |-> authorization])
         IN  IF sess = NoDoc
             THEN [code |-> 401, detail |-> "Session invalid",
                   sessions |-> admin_sessions, writes |-> <<>>]
             ELSE IF expired
             THEN [code |-> 401, detail |-> "Session expired",
                   \* delete_one by the _id of sess, the first match of the token
                   sessions |-> RemoveAt(admin_sessions,
                                         First(admin_sessions, [token |-> authorization])),
                   writes |-> <<W("admin_sessions", "delete_one", TRUE)>>]
             ELSE IF FindOne(admin, [_id |-> objid(sess.admin_id)]) = NoDoc
             THEN [code |-> 401, detail |-> "Admin not found",
                   sessions |-> admin_sessions, writes |-> <<>>]
             ELSE [code |-> 200, detail |-> "ok",
                   sessions |-> admin_sessions, writes |-> <<>>]

\* ------------------------------------------------------------ admin auth
seed_default_admin ==
    /\ UNCHANGED inflight
    /\ req' = [op |-> "seed_default_admin"]
    /\ IF FindOne(admin, [username |-> "admin"]) # NoDoc
       THEN /\ resp' = [code |-> 200, message |-> "Admin already exists"]
            /\ writes' = <<>>
            /\ UNCHANGED <<admin, oid>>
       ELSE /\ admin' = Append(admin, [_id |-> oid + 1, username |-> "admin",
                                       password_hash |-> BcryptHash("admin123"),
                                       nama_lengkap |-> "Administrator"])
            /\ oid' = oid + 1
            /\ resp' = [code |-> 200, message |-> "Default admin created"]
            /\ writes' = <<W("admin", "insert_one", FALSE)>>
    /\ UNCHANGED <<kelas, siswa, absensi, admin_sessions, tokens>>

admin_login(username, password) ==
    \E adm \in {FindOne(admin, [username |-> username])} :
        /\ UNCHANGED inflight
        /\ req' = [op |-> "admin_login", username |-> username, password |-> password]
        /\ IF adm = NoDoc \/ ~BcryptVerify(password, Get(adm, "password_hash", ""))
           THEN /\ resp' = [code |-> 401, detail |-> "Username atau password salah"]
                /\ writes' = <<>>
                /\ UNCHANGED <<admin_sessions, tokens>>
           ELSE /\ tokens < MaxTokens
                /\ tokens' = tokens + 1
                /\ admin_sessions' = Append(admin_sessions,
                                            [admin_id |-> StrOid(adm._id), token |-> tokens + 1])
                /\ resp' = [code |-> 200, token |-> tokens + 1,
                            username |-> adm.username, nama_lengkap |-> adm.nama_lengkap]
                /\ writes' = <<W("admin_sessions", "insert_one", FALSE)>>
        /\ UNCHANGED <<kelas, siswa, absensi, admin, oid>>

admin_logout(authorization) ==
    LET NotTok(s) == s.token # authorization
    IN  /\ UNCHANGED inflight
        /\ req' = [op |-> "admin_logout", authorization |-> authorization]
        /\ IF authorization # 0
           THEN /\ admin_sessions' = SelectSeq(admin_sessions, NotTok)
                /\ writes' = <<W("admin_sessions", "delete_many",
                                 First(admin_sessions, [token |-> authorization]) # 0)>>
           ELSE /\ writes' = <<>>
                /\ UNCHANGED admin_sessions
        /\ resp' = [code |-> 200, status |-> "ok"]
        /\ UNCHANGED <<kelas, siswa, absensi, admin, oid, tokens>>

\* ------------------------------------------------------------- demo seed
KelasNames == <<"X-A", "X-B">>
Samples == <<[nis |-> "1001", nama |-> "Budi Santoso", kelas |-> "X-A"],
             [nis |-> "1002", nama |-> "Siti Aminah", kelas |-> "X-A"],
             [nis |-> "2001", nama |-> "Andi Wijaya", kelas |-> "X-B"],
             [nis |-> "2002", nama |-> "Rina Marlina", kelas |-> "X-B"]>>

\* The loop over kelas_names: st holds the collection, the id counter,
\* kelas_map and the write log so far.
RECURSIVE SeedKelas(_, _)
SeedKelas(st, i) ==
    IF i > Len(KelasNames) THEN st
    ELSE LET name == KelasNames[i]
             k == FindOne(st.kelas, [nama_kelas |-> name])
         IN  IF k = NoDoc
             THEN SeedKelas([kelas |-> Append(st.kelas, [_id |-> st.oid + 1, nama_kelas |-> name]),
                             oid |-> st.oid + 1,
                             map |-> (name :> StrOid(st.oid + 1)) @@ st.map,
                             writes |-> Append(st.writes, W("kelas", "insert_one", FALSE))],
                            i + 1)
             ELSE SeedKelas([st EXCEPT !.map = (name :> StrOid(k._id)) @@ st.map], i + 1)

\* The loop over samples: created counts the students inserted.
RECURSIVE SeedSiswa(_, _, _)
SeedSiswa(st, kelas_map, i) ==
    IF i > Len(Samples) THEN st
    ELSE LET s == Samples[i]
         IN  IF FindOne(st.siswa, [nis |-> s.nis]) = NoDoc
             THEN SeedSiswa([siswa |-> Append(st.siswa, [_id |-> st.oid + 1, nis |-> s.nis,
                                                         nama_lengkap |-> s.nama,
                                                         id_kelas |-> kelas_map[s.kelas]]),
                             oid |-> st.oid + 1,
                             created |-> st.created + 1,
                             writes |-> Append(st.writes, W("siswa", "insert_one", FALSE))],
                            kelas_map, i + 1)
             ELSE SeedSiswa(st, kelas_map, i + 1)

seed_demo ==
    \E k \in {SeedKelas([kelas |-> kelas, oid |-> oid, map |-> <<>>, writes |-> <<>>], 1)} :
    \E s \in {SeedSiswa([siswa |-> siswa, oid |-> k.oid, created |-> 0, writes |-> k.writes],
                        k.map, 1)} :
        /\ UNCHANGED inflight
        /\ req' = [op |-> "seed_demo"]
        /\ kelas' = k.kelas
        /\ siswa' = s.siswa
        /\ oid' = s.oid
        /\ resp' = [code |-> 200, status |-> "ok", siswa_baru |-> s.created]
        /\ writes' = s.writes
        /\ UNCHANGED <<absensi, admin, admin_sessions, tokens>>

\* ----------------------------------------------------------- kelas CRUD
\* The step of a handler whose require_admin or objid raised: nothing but
\* the session collection (an expired session is deleted) changes.
Refused(auth, code, detail) ==
    /\ resp' = [code |-> code, detail |-> detail]
    /\ admin_sessions' = auth.sessions
    /\ writes' = auth.writes
    /\ UNCHANGED <<kelas, siswa, absensi, admin, oid, tokens>>

\* The step of a handler whose update_one or delete_one matched nothing.
NoMatch(auth, coll, call, detail) ==
    /\ resp' = [code |-> 404, detail |-> detail]
    /\ admin_sessions' = auth.sessions
    /\ writes' = <<W(coll, call, FALSE)>>
    /\ UNCHANGED <<kelas, siswa, absensi, admin, oid, tokens>>

\* POST /api/kelas
create_kelas(authorization, expired, nama_kelas) ==
    \E auth \in {require_admin(authorization, expired)} :
        /\ UNCHANGED inflight
        /\ req' = [op |-> "create_kelas", authorization |-> authorization,
                   expired |-> expired, nama_kelas |-> nama_kelas]
        /\ IF auth.code # 200
           THEN Refused(auth, auth.code, auth.detail)
           ELSE IF FindOne(kelas, [nama_kelas |-> nama_kelas]) # NoDoc
           THEN Refused(auth, 400, "Nama kelas sudah ada")
           ELSE /\ oid < MaxOid
                /\ kelas' = Append(kelas, [_id |-> oid + 1, nama_kelas |-> nama_kelas])
                /\ oid' = oid + 1
                /\ resp' = [code |-> 200, id |-> StrOid(oid + 1), nama_kelas |-> nama_kelas]
                /\ writes' = <<W("kelas", "insert_one", FALSE)>>
                /\ UNCHANGED <<siswa, absensi, admin, admin_sessions, tokens>>

\* PUT /api/kelas/{kelas_id}
update_kelas(authorization, expired, kelas_id, nama_kelas) ==
    \E auth \in {require_admin(authorization, expired)} :
        /\ UNCHANGED inflight
        /\ req' = [op |-> "update_kelas", authorization |-> authorization,
                   expired |-> expired, kelas_id |-> kelas_id, nama_kelas |-> nama_kelas]
        /\ IF auth.code # 200
           THEN Refused(auth, auth.code, auth.detail)
           ELSE IF ~IsOid(kelas_id)
           THEN Refused(auth, 400, "Invalid ID format")
           ELSE \E i \in {First(kelas, [_id |-> objid(kelas_id)])} :
                IF i = 0
                THEN NoMatch(auth, "kelas", "update_one", "Kelas tidak ditemukan")
                ELSE /\ kelas' = [kelas EXCEPT ![i] = SetFields(@, [nama_kelas |-> nama_kelas])]
                     /\ resp' = [code |-> 200, id |-> kelas_id, nama_kelas |-> nama_kelas]
                     /\ writes' = <<W("kelas", "update_one", TRUE)>>
                     /\ UNCHANGED <<siswa, absensi, admin, admin_sessions, oid, tokens>>

\* DELETE /api/kelas/{kelas_id}
delete_kelas(authorization, expired, kelas_id) ==
    \E auth \in {require_admin(authorization, expired)} :
        /\ UNCHANGED inflight
        /\ req' = [op |-> "delete_kelas", authorization |-> authorization,
                   expired |-> expired, kelas_id |-> kelas_id]
        /\ IF auth.code # 200
           THEN Refused(auth, auth.code, auth.detail)
           ELSE IF ~IsOid(kelas_id)
           THEN Refused(auth, 400, "Invalid ID format")
           ELSE IF FindOne(siswa, [id_kelas |-> StrOid(objid(kelas_id))]) # NoDoc
           THEN Refused(auth, 400, "Kelas digunakan oleh data siswa")
           ELSE \E i \in {First(kelas, [_id |-> objid(kelas_id)])} :
                IF i = 0
                THEN NoMatch(auth, "kelas", "delete_one", "Kelas tidak ditemukan")
                ELSE /\ kelas' = RemoveAt(kelas, i)
                     /\ resp' = [code |-> 200, status |-> "ok"]
                     /\ writes' = <<W("kelas", "delete_one", TRUE)>>
                     /\ UNCHANGED <<siswa, absensi, admin, admin_sessions, oid, tokens>>

\* ----------------------------------------------------------- siswa CRUD
\* POST /api/siswa
create_siswa(authorization, expired, nis, nama_lengkap, id_kelas) ==
    \E auth \in {require_admin(authorization, expired)} :
        /\ UNCHANGED inflight
        /\ req' = [op |-> "create_siswa", authorization |-> authorization,
                   expired |-> expired, nis |-> nis, nama_lengkap |-> nama_lengkap,
                   id_kelas |-> id_kelas]
        /\ IF auth.code # 200
           THEN Refused(auth, auth.code, auth.detail)
           ELSE IF ~IsOid(id_kelas)
           THEN Refused(auth, 400, "Invalid ID format")
           ELSE \E k \in {FindOne(kelas, [_id |-> objid(id_kelas)])} :
                IF k = NoDoc
                THEN Refused(auth, 400, "Kelas tidak valid")
                ELSE IF FindOne(siswa, [nis |-> nis]) # NoDoc
                THEN Refused(auth, 400, "NIS sudah terdaftar")
                ELSE /\ oid < MaxOid
                     /\ siswa' = Append(siswa, [_id |-> oid + 1, nis |-> nis,
                                                nama_lengkap |-> nama_lengkap,
                                                id_kelas |-> StrOid(k._id)])
                     /\ oid' = oid + 1
                     /\ resp' = [code |-> 200, id |-> StrOid(oid + 1), nis |-> nis,
                                 nama_lengkap |-> nama_lengkap, id_kelas |-> StrOid(k._id),
                                 nama_kelas |-> Get(k, "nama_kelas", None)]
                     /\ writes' = <<W("siswa", "insert_one", FALSE)>>
                     /\ UNCHANGED <<kelas, absensi, admin, admin_sessions, tokens>>

\* The id_kelas update_siswa stores: the payload's string as given.
stored_id_kelas(id_kelas) == id_kelas

\* An update that does not look for the nis.
nis_unchecked(nis, siswa_id) == FALSE

\* "unique NIS (exclude current)": another student holds the nis.
nis_of_other(nis, siswa_id) ==
    LET Other(x) == x.nis = nis /\ x._id # objid(siswa_id)
    IN  SelectSeq(siswa, Other) # <<>>

\* PUT /api/siswa/{siswa_id}
update_siswa(authorization, expired, siswa_id, nis, nama_lengkap, id_kelas) ==
    \E auth \in {require_admin(authorization, expired)} :
        /\ UNCHANGED inflight
        /\ req' = [op |-> "update_siswa", authorization |-> authorization,
                   expired |-> expired, siswa_id |-> siswa_id, nis |-> nis,
                   nama_lengkap |-> nama_lengkap, id_kelas |-> id_kelas]
        /\ IF auth.code # 200
           THEN Refused(auth, auth.code, auth.detail)
           ELSE IF ~IsOid(id_kelas)
           THEN Refused(auth, 400, "Invalid ID format")
           ELSE IF FindOne(kelas, [_id |-> objid(id_kelas)]) = NoDoc
           THEN Refused(auth, 400, "Kelas tidak valid")
           ELSE IF ~IsOid(siswa_id)
           THEN Refused(auth, 400, "Invalid ID format")
           ELSE IF nis_of_other(nis, siswa_id)
           THEN Refused(auth, 400, "NIS sudah terpakai oleh siswa lain")
                    ELSE \E i \in {First(siswa, [_id |-> objid(siswa_id)])} :
                         IF i = 0
                         THEN NoMatch(auth, "siswa", "update_one", "Siswa tidak ditemukan")
                         ELSE \E s \in {SetFields(siswa[i],
                                            [nis |-> nis, nama_lengkap |-> nama_lengkap,
                                             id_kelas |-> stored_id_kelas(id_kelas)])} :
                              \* objid(s.get("id_kelas")) parses: it did above
                              \E k \in {FindOne(kelas, [_id |-> objid(s.id_kelas)])} :
                              /\ siswa' = [siswa EXCEPT ![i] = s]
                              /\ resp' = [code |-> 200, id |-> siswa_id, nis |-> s.nis,
                                          nama_lengkap |-> s.nama_lengkap,
                                          id_kelas |-> s.id_kelas,
                                          nama_kelas |-> Get(k, "nama_kelas", None)]
                              /\ writes' = <<W("siswa", "update_one", TRUE)>>
                              /\ UNCHANGED <<kelas, absensi, admin, admin_sessions, oid,
                                             tokens>>

\* The id_siswa delete_siswa's delete_many filters on: the path's string.
cascade_id(siswa_id) == siswa_id

\* DELETE /api/siswa/{siswa_id}: the attendance records go first, before
\* the id is parsed and before the student is known to exist.
delete_siswa(authorization, expired, siswa_id) ==
    \E auth \in {require_admin(authorization, expired)} :
        /\ UNCHANGED inflight
        /\ req' = [op |-> "delete_siswa", authorization |-> authorization,
                   expired |-> expired, siswa_id |-> siswa_id]
        /\ IF auth.code # 200
           THEN Refused(auth, auth.code, auth.detail)
           ELSE LET NotOf(a) == a.id_siswa # cascade_id(siswa_id)
                    cascade == W("absensi", "delete_many",
                                 First(absensi, [id_siswa |-> cascade_id(siswa_id)]) # 0)
                    i == IF IsOid(siswa_id) THEN First(siswa, [_id |-> objid(siswa_id)]) ELSE 0
                IN  /\ absensi' = SelectSeq(absensi, NotOf)
                    /\ admin_sessions' = auth.sessions
                    /\ UNCHANGED <<kelas, admin, oid, tokens>>
                    /\ IF ~IsOid(siswa_id)
                       THEN /\ resp' = [code |-> 400, detail |-> "Invalid ID format"]
                            /\ writes' = <<cascade>>
                            /\ UNCHANGED siswa
                       ELSE IF i = 0
                       THEN /\ resp' = [code |-> 404, detail |-> "Siswa tidak ditemukan"]
                            /\ writes' = <<cascade, W("siswa", "delete_one", FALSE)>>
                            /\ UNCHANGED siswa
                       ELSE /\ siswa' = RemoveAt(siswa, i)
                            /\ resp' = [code |-> 200, status |-> "ok"]
                            /\ writes' = <<cascade, W("siswa", "delete_one", TRUE)>>

\* -------------------------------------------------------------- absensi
\* A lookup that forgets the date, and one that finds nothing.
existing_any_day(id_siswa, today) ==
    FindOne(absensi, [id_siswa |-> id_siswa, status |-> "Hadir"])

existing_none(id_siswa, today) == NoDoc

\* "prevent duplicate Hadir in same day": today's Hadir record of the
\* student, if any.
existing_hadir(id_siswa, today) ==
    FindOne(absensi, [id_siswa |-> id_siswa, tanggal |-> today, status |-> "Hadir"])

\* A check-in document without its time.
checkin_doc_keep_time(id_siswa, today, now) ==
    [id_siswa |-> id_siswa, tanggal |-> today, status |-> "Hadir"]

\* The document check-in writes with "$set".
checkin_doc(id_siswa, today, now) ==
    [id_siswa |-> id_siswa, tanggal |-> today, jam_masuk |-> now, status |-> "Hadir"]

\* POST /api/absen/checkin. today and now are the results of today_str() and
\* now_time_str() at this request.
absen_checkin(nis, today, now) ==
    \E s \in {FindOne(siswa, [nis |-> nis])} :
        LET id_siswa == IF s = NoDoc THEN 0 ELSE StrOid(s._id)
            key == [id_siswa |-> id_siswa, tanggal |-> today]
        IN  \E existing \in {existing_hadir(id_siswa, today)} :
            /\ UNCHANGED inflight
            /\ req' = [op |-> "absen_checkin", nis |-> nis, today |-> today, now |-> now]
            /\ IF s = NoDoc
               THEN /\ resp' = [code |-> 404, detail |-> "Siswa tidak ditemukan"]
                    /\ writes' = <<>>
                    /\ UNCHANGED absensi
               ELSE IF existing # NoDoc
               THEN /\ resp' = [code |-> 200,
                                message |-> <<"Sudah absen hari ini pada",
                                              Get(existing, "jam_masuk", "-")>>,
                                nama |-> s.nama_lengkap, kelas |-> s.id_kelas,
                                status |-> "Hadir",
                                jam_masuk |-> Get(existing, "jam_masuk", None)]
                    /\ writes' = <<>>
                    /\ UNCHANGED absensi
               ELSE /\ First(absensi, key) # 0 \/ Len(absensi) < MaxAbsensi
                    /\ absensi' = UpdateOneUpsert(absensi, key,
                                                  checkin_doc(id_siswa, today, now))
                    /\ resp' = [code |-> 200, message |-> <<"Absensi berhasil">>,
                                nama |-> s.nama_lengkap, kelas |-> s.id_kelas,
                                status |-> "Hadir", jam_masuk |-> now]
                    /\ writes' = <<W("absensi", "update_one", First(absensi, key) # 0)>>
            /\ UNCHANGED <<kelas, siswa, admin, admin_sessions, oid, tokens>>

\* A status document that always carries a time.
update_doc_always_now(id_siswa, tanggal, status, jam_masuk, now) ==
    [id_siswa |-> id_siswa, tanggal |-> tanggal, status |-> status,
     jam_masuk |-> IF jam_masuk = None \/ jam_masuk = "" THEN now ELSE jam_masuk]

\* The document set_status writes with "$set".
update_doc(id_siswa, tanggal, status, jam_masuk, now) ==
    LET base == [id_siswa |-> id_siswa, tanggal |-> tanggal, status |-> status]
    IN  IF status = "Hadir"
        THEN SetFields(base, [jam_masuk |->
                 IF jam_masuk = None \/ jam_masuk = "" THEN now ELSE jam_masuk])
        ELSE IF jam_masuk # None
        THEN SetFields(base, [jam_masuk |-> jam_masuk])
        ELSE base

\* PUT /api/absen/status. tanggal_in is NoDate when the payload omits it (or
\* gives null) and jam_masuk is None when the payload gives none.
set_status(authorization, expired, nis, tanggal_in, status, jam_masuk, today, now) ==
    \E auth \in {require_admin(authorization, expired)} :
        \E s \in {FindOne(siswa, [nis |-> nis])} :
        LET id_siswa == IF s = NoDoc THEN 0 ELSE StrOid(s._id)
            tanggal == IF tanggal_in = NoDate \/ tanggal_in = 0 THEN today ELSE tanggal_in
            key == [id_siswa |-> id_siswa, tanggal |-> tanggal]
        IN  /\ UNCHANGED inflight
            /\ req' = [op |-> "set_status", authorization |-> authorization,
                       expired |-> expired, nis |-> nis, tanggal |-> tanggal_in,
                       status |-> status, jam_masuk |-> jam_masuk,
                       today |-> today, now |-> now]
            /\ admin_sessions' = auth.sessions
            /\ IF auth.code # 200
               THEN /\ resp' = [code |-> auth.code, detail |-> auth.detail]
                    /\ writes' = auth.writes
                    /\ UNCHANGED absensi
               ELSE IF s = NoDoc
               THEN /\ resp' = [code |-> 404, detail |-> "Siswa tidak ditemukan"]
                    /\ writes' = <<>>
                    /\ UNCHANGED absensi
               ELSE /\ First(absensi, key) # 0 \/ Len(absensi) < MaxAbsensi
                    /\ absensi' = UpdateOneUpsert(absensi, key,
                                      update_doc(id_siswa, tanggal, status, jam_masuk, now))
                    /\ resp' = [code |-> 200, message |-> "Status tersimpan",
                                nis |-> nis, tanggal |-> tanggal, status |-> status]
                    /\ writes' = <<W("absensi", "update_one", First(absensi, key) # 0)>>
            /\ UNCHANGED <<kelas, siswa, admin, oid, tokens>>

\* kelas_map.get(key, ""): kelas_map holds, under the string of each class's
\* _id, the name of the last class of that _id.
kelas_map_get(key) ==
    LET keys == [i \in DOMAIN kelas |-> [key |-> StrOid(kelas[i]._id)]]
        ik == Last(keys, [key |-> key])
    IN  IF ik = 0 THEN "" ELSE Get(kelas[ik], "nama_kelas", "")

\* GET /api/status/today: one row per student of siswa_list.
status_text(a) ==
    IF a # NoDoc /\ Get(a, "status", None) = "Hadir"
    THEN <<"Sudah Absen pukul", Get(a, "jam_masuk", "-")>>
    ELSE IF a # NoDoc /\ Get(a, "status", None) \in {"Sakit", "Izin"}
    THEN <<Get(a, "status", None)>>
    ELSE <<"Belum Absen">>

status_today_data(id_kelas, today) ==
    LET filter_ == IF id_kelas = NoId \/ id_kelas = 0 THEN <<>> ELSE [id_kelas |-> id_kelas]
        siswa_list == Find(siswa, filter_)
        Row(x) ==
            LET sid == StrOid(x._id)
                ia == Last(absensi, [tanggal |-> today, id_siswa |-> sid])
            IN  [nama |-> Get(x, "nama_lengkap", None),
                 nis |-> Get(x, "nis", None),
                 kelas |-> kelas_map_get(Get(x, "id_kelas", 0)),
                 status_hari_ini |-> status_text(IF ia = 0 THEN NoDoc ELSE absensi[ia])]
    IN  [i \in 1 .. Len(siswa_list) |-> Row(siswa_list[i])]

status_today(id_kelas, today) ==
    /\ UNCHANGED inflight
    /\ req' = [op |-> "status_today", id_kelas |-> id_kelas, today |-> today]
    /\ resp' = [code |-> 200, tanggal |-> today, data |-> status_today_data(id_kelas, today)]
    /\ writes' = <<>>
    /\ UNCHANGED <<kelas, siswa, absensi, admin, admin_sessions, oid, tokens>>

\* The $match/$group pipeline: the number of documents of each status among
\* those of the day, and counts.get(status, 0).
agg_count(data, status) ==
    Cardinality({i \in DOMAIN data : Get(data[i], "status", None) = status})

\* A tally that forgets the $match on the day.
stats_today_all_days(today) ==
    LET total_siswa == Len(siswa)
        hadir == agg_count(absensi, "Hadir")
        sakit == agg_count(absensi, "Sakit")
        izin == agg_count(absensi, "Izin")
    IN  [code |-> 200, tanggal |-> today, hadir |-> hadir, sakit |-> sakit, izin |-> izin,
         alpha |-> Max(0, total_siswa - (hadir + sakit + izin)), total |-> total_siswa]

\* GET /api/stats/today
stats_today_response(today) ==
    LET total_siswa == Len(siswa)
        data == Find(absensi, [tanggal |-> today])
        hadir == agg_count(data, "Hadir")
        sakit == agg_count(data, "Sakit")
        izin == agg_count(data, "Izin")
    IN  [code |-> 200, tanggal |-> today, hadir |-> hadir, sakit |-> sakit, izin |-> izin,
         alpha |-> Max(0, total_siswa - (hadir + sakit + izin)), total |-> total_siswa]

stats_today(today) ==
    /\ UNCHANGED inflight
    /\ req' = [op |-> "stats_today", today |-> today]
    /\ resp' = stats_today_response(today)
    /\ writes' = <<>>
    /\ UNCHANGED <<kelas, siswa, absensi, admin, admin_sessions, oid, tokens>>

\* GET /api/laporan/rekap. The rows of a request whose dates parse and whose
\* nis, when given, matches: the records are fetched by the order of the date
\* strings as given, the days are counted from the dates they parse to.
rekap_data(start, end, id_kelas, nis) ==
    LET siswa_filter ==
            (IF id_kelas = NoId \/ id_kelas = 0 THEN <<>> ELSE [id_kelas |-> id_kelas])
            @@ (IF nis = None \/ nis = "" THEN <<>> ELSE [nis |-> nis])
        siswa_list == Find(siswa, siswa_filter)
        siswa_ids == {StrOid(siswa_list[i]._id) : i \in DOMAIN siswa_list}
        InRange(a) == /\ a.tanggal >= start /\ a.tanggal <= end
                      /\ siswa_ids # {} => a.id_siswa \in siswa_ids
        data == SelectSeq(absensi, InRange)
        delta_days == (FromIso(end) - FromIso(start)) + 1
        St(a) == IF Get(a, "status", None) \in {None, ""} THEN "Alpha" ELSE a.status
        Count(sid, st) ==
            Cardinality({i \in DOMAIN data : data[i].id_siswa = sid /\ St(data[i]) = st})
        present_map(sid) ==
            {data[i].tanggal : i \in {j \in DOMAIN data :
                 data[j].id_siswa = sid /\ St(data[j]) \in {"Hadir", "Sakit", "Izin"}}}
        Row(x) ==
            LET sid == StrOid(x._id)
            IN  [nis |-> Get(x, "nis", None),
                 nama |-> Get(x, "nama_lengkap", None),
                 kelas |-> kelas_map_get(Get(x, "id_kelas", 0)),
                 Hadir |-> Count(sid, "Hadir"),
                 Sakit |-> Count(sid, "Sakit"),
                 Izin |-> Count(sid, "Izin"),
                 Alpha |-> Max(0, delta_days - Cardinality(present_map(sid)))]
    IN  [i \in 1 .. Len(siswa_list) |-> Row(siswa_list[i])]

\* A response whose range check compares the date strings as given.
rekap_response_raw_range(start, end, id_kelas, nis) ==
    IF ~CanParse(start) \/ ~CanParse(end)
    THEN [code |-> 400, detail |-> "Format tanggal tidak valid (YYYY-MM-DD)"]
    ELSE IF end < start
    THEN [code |-> 400, detail |-> "Rentang tanggal tidak valid"]
    ELSE IF nis # None /\ nis # "" /\ rekap_data(start, end, id_kelas, nis) = <<>>
    THEN [code |-> 404, detail |-> "Siswa tidak ditemukan"]
    ELSE [code |-> 200, range |-> [start |-> start, end |-> end],
          data |-> rekap_data(start, end, id_kelas, nis)]

\* The response of a request that passed require_admin.
rekap_response(start, end, id_kelas, nis) ==
    IF ~CanParse(start) \/ ~CanParse(end)
    THEN [code |-> 400, detail |-> "Format tanggal tidak valid (YYYY-MM-DD)"]
    ELSE IF FromIso(end) < FromIso(start)
    THEN [code |-> 400, detail |-> "Rentang tanggal tidak valid"]
    ELSE \* "if nis and not siswa_list"
         IF nis # None /\ nis # "" /\ rekap_data(start, end, id_kelas, nis) = <<>>
    THEN [code |-> 404, detail |-> "Siswa tidak ditemukan"]
    ELSE [code |-> 200, range |-> [start |-> start, end |-> end],
          data |-> rekap_data(start, end, id_kelas, nis)]

laporan_rekap(authorization, expired, start, end, id_kelas, nis) ==
    \E auth \in {require_admin(authorization, expired)} :
        /\ UNCHANGED inflight
        /\ req' = [op |-> "laporan_rekap", authorization |-> authorization,
                   expired |-> expired, start |-> start, end |-> end,
                   id_kelas |-> id_kelas, nis |-> nis]
        /\ admin_sessions' = auth.sessions
        /\ writes' = auth.writes
        /\ resp' = IF auth.code # 200
                   THEN [code |-> auth.code, detail |-> auth.detail]
                   ELSE rekap_response(start, end, id_kelas, nis)
        /\ UNCHANGED <<kelas, siswa, absensi, admin, oid, tokens>>

\* ----------------------------------------------------------- request inputs
\* Every request draws its inputs from the sets given. An input that the
\* handler does not read on the path taken (the payload after a failed
\* require_admin, the clock when the payload gives the value) is fixed, since
\* it cannot change the step.
\* ------------------------------------------- check-in, request by request
\* The handlers hold no lock and no transaction: a check-in is a read of the
\* store (the student, then today's Hadir record) and, later, one upsert,
\* and the requests of other clients run in between.

\* An upsert that looked for its key before a concurrent request inserted a
\* record of that key, and inserts its own.
upsert_racing_insert(coll, filterDoc, upd) == Append(coll, SetFields(filterDoc, upd))

\* The upsert of the store, which enforces the (id_siswa, tanggal) key: one
\* atomic step that updates the record of the key, or inserts when there is
\* none.
upsert_unique_key(coll, filterDoc, upd) == UpdateOneUpsert(coll, filterDoc, upd)

\* absen_checkin up to its answer or its decision to write: find_one of the
\* student, today_str(), find_one of today's Hadir record.
checkin_read(c, nis, today) ==
    \E s \in {FindOne(siswa, [nis |-> nis])} :
        LET id_siswa == IF s = NoDoc THEN 0 ELSE StrOid(s._id)
        IN  \E existing \in {existing_hadir(id_siswa, today)} :
            /\ inflight[c] = Idle
            /\ req' = [op |-> "checkin_read", client |-> c, nis |-> nis, today |-> today]
            /\ IF s = NoDoc
               THEN /\ resp' = [code |-> 404, detail |-> "Siswa tidak ditemukan"]
                    /\ inflight' = [inflight EXCEPT ![c] = [pc |-> "done", code |-> 404]]
               ELSE IF existing # NoDoc
               THEN /\ resp' = [code |-> 200,
                                message |-> <<"Sudah absen hari ini pada",
                                              Get(existing, "jam_masuk", "-")>>,
                                nama |-> s.nama_lengkap, kelas |-> s.id_kelas,
                                status |-> "Hadir",
                                jam_masuk |-> Get(existing, "jam_masuk", None)]
                    /\ inflight' = [inflight EXCEPT ![c] =
                                        [pc |-> "done", code |-> 200, wrote |-> FALSE,
                                         id_siswa |-> id_siswa, tanggal |-> today,
                                         jam_masuk |-> Get(existing, "jam_masuk", None)]]
               ELSE /\ resp' = [code |-> 0]
                    /\ inflight' = [inflight EXCEPT ![c] =
                                        [pc |-> "upsert", id_siswa |-> id_siswa,
                                         tanggal |-> today, nama |-> s.nama_lengkap,
                                         kelas |-> s.id_kelas]]
            /\ writes' = <<>>
            /\ UNCHANGED <<kelas, siswa, absensi, admin, admin_sessions, oid, tokens>>

\* The rest of absen_checkin: now_time_str(), the upsert and the answer.
checkin_upsert(c, now) ==
    /\ inflight[c].pc = "upsert"
    /\ LET r == inflight[c]
           key == [id_siswa |-> r.id_siswa, tanggal |-> r.tanggal]
       IN  /\ First(absensi, key) # 0 \/ Len(absensi) < MaxAbsensi
           /\ req' = [op |-> "checkin_upsert", client |-> c, now |-> now]
           /\ absensi' = upsert_unique_key(absensi, key,
                                           checkin_doc(r.id_siswa, r.tanggal, now))
           /\ resp' = [code |-> 200, message |-> <<"Absensi berhasil">>,
                       nama |-> r.nama, kelas |-> r.kelas, status |-> "Hadir",
                       jam_masuk |-> now]
           /\ writes' = <<W("absensi", "update_one", First(absensi, key) # 0)>>
           /\ inflight' = [inflight EXCEPT ![c] =
                               [pc |-> "done", code |-> 200, wrote |-> TRUE,
                                id_siswa |-> r.id_siswa, tanggal |-> r.tanggal,
                                jam_masuk |-> now]]
    /\ UNCHANGED <<kelas, siswa, admin, admin_sessions, oid, tokens>>

\* The client is through with the answer and may send its next request.
checkin_return(c) ==
    /\ inflight[c].pc = "done"
    /\ inflight' = [inflight EXCEPT ![c] = Idle]
    /\ req' = [op |-> "checkin_return", client |-> c]
    /\ UNCHANGED <<kelas, siswa, absensi, admin, admin_sessions, oid, tokens, resp, writes>>

\* ---------------------------------------- delete_kelas, request by request
\* delete_kelas up to its refusal or its decision to delete: require_admin,
\* objid, find_one of a student of the class.
delete_kelas_check(c, authorization, expired, kelas_id) ==
    \E auth \in {require_admin(authorization, expired)} :
        /\ inflight[c] = Idle
        /\ req' = [op |-> "delete_kelas_check", client |-> c,
                   authorization |-> authorization, expired |-> expired,
                   kelas_id |-> kelas_id]
        /\ IF auth.code # 200
           THEN Refused(auth, auth.code, auth.detail) /\ UNCHANGED inflight
           ELSE IF ~IsOid(kelas_id)
           THEN Refused(auth, 400, "Invalid ID format") /\ UNCHANGED inflight
           ELSE IF FindOne(siswa, [id_kelas |-> StrOid(objid(kelas_id))]) # NoDoc
           THEN Refused(auth, 400, "Kelas digunakan oleh data siswa") /\ UNCHANGED inflight
           ELSE /\ inflight' = [inflight EXCEPT ![c] =
                                    [pc |-> "delete_one", kelas_id |-> kelas_id]]
                /\ resp' = [code |-> 0]
                /\ writes' = <<>>
                /\ UNCHANGED <<kelas, siswa, absensi, admin, admin_sessions, oid, tokens>>

\* The rest of delete_kelas: delete_one and the answer.
delete_kelas_delete(c) ==
    /\ inflight[c].pc = "delete_one"
    /\ inflight' = [inflight EXCEPT ![c] = Idle]
    /\ req' = [op |-> "delete_kelas_delete", client |-> c,
               kelas_id |-> inflight[c].kelas_id]
    /\ \E i \in {First(kelas, [_id |-> objid(inflight[c].kelas_id)])} :
          IF i = 0
          THEN /\ resp' = [code |-> 404, detail |-> "Kelas tidak ditemukan"]
               /\ writes' = <<W("kelas", "delete_one", FALSE)>>
               /\ UNCHANGED kelas
          ELSE /\ kelas' = RemoveAt(kelas, i)
               /\ resp' = [code |-> 200, status |-> "ok"]
               /\ writes' = <<W("kelas", "delete_one", TRUE)>>
    /\ UNCHANGED <<siswa, absensi, admin, admin_sessions, oid, tokens>>

AuthInputs == 0 .. MaxTokens
JamInputs == {None, ""} \cup Times
Known(nis) == \E i \in 1 .. Len(siswa) : siswa[i].nis = nis
Only(cond, S, dflt) == IF cond THEN S ELSE {dflt}

Login ==
    \/ seed_default_admin
    \/ \E u \in {"admin", "guest"}, p \in {"admin123", "wrong"} : admin_login(u, p)

CheckIn(NisSet, DaySet, TimeSet) ==
    \E nis \in NisSet :
    \E today \in Only(Known(nis), DaySet, Iso(1)) :
    \E now \in Only(Known(nis), TimeSet, "07:00") :
        absen_checkin(nis, today, now)

SetStatus(AuthSet, ExpiredSet, NisSet, TanggalSet, StatusSet, JamSet, DaySet, TimeSet) ==
    \E t \in AuthSet :
    \E expired \in Only(t # 0, ExpiredSet, FALSE) :
    \E ok \in {require_admin(t, expired).code = 200} :
    \E nis \in Only(ok, NisSet, "9999") :
    \E known \in {ok /\ Known(nis)} :
    \E tanggal \in Only(known, TanggalSet, NoDate) :
    \E status \in Only(known, StatusSet, "Hadir") :
    \E jam \in Only(known, JamSet, None) :
    \E today \in Only(known /\ tanggal = NoDate, DaySet, Iso(1)) :
    \E now \in Only(known /\ status = "Hadir" /\ jam \in {None, ""}, TimeSet, "07:00") :
        set_status(t, expired, nis, tanggal, status, jam, today, now)

StatusToday(KelasSet, DaySet) ==
    \E id_kelas \in KelasSet, today \in DaySet : status_today(id_kelas, today)

\* The id string of the class of a name, 1 (no id) when there is none.
KelasId(name) ==
    LET k == FindOne(kelas, [nama_kelas |-> name])
    IN  IF k = NoDoc THEN 1 ELSE StrOid(k._id)

\* The attendance recorder: check-in and status-set of one student, by any
\* client, on any day and at any time, and the view of today.
Next ==
    \/ seed_demo
    \/ Login
    \/ StatusToday({NoId, KelasId("X-A")}, IsoDays)
    \/ CheckIn({"1001", "9999"}, IsoDays, Times)
    \/ SetStatus(AuthInputs, {FALSE}, {"1001", "9999"}, {NoDate} \cup IsoDays, Statuses,
                 JamInputs, IsoDays, Times)

Spec == Init /\ [][Next]_vars

Rekap(AuthSet, ExpiredSet, StartSet, EndSet, KelasSet, NisSet) ==
    \E t \in AuthSet :
    \E expired \in Only(t # 0, ExpiredSet, FALSE) :
    \E ok \in {require_admin(t, expired).code = 200} :
    \E start \in Only(ok, StartSet, Iso(1)) :
    \E end \in Only(ok, EndSet, Iso(1)) :
    \E valid \in {ok /\ CanParse(start) /\ CanParse(end) /\ FromIso(end) >= FromIso(start)} :
    \E id_kelas \in Only(valid, KelasSet, NoId) :
    \E nis \in Only(valid, IF id_kelas = NoId THEN NisSet ELSE NisSet \ {"9999"}, None) :
        laporan_rekap(t, expired, start, end, id_kelas, nis)

\* The ids a client may send for a document of a collection: the id of each
\* document as the API prints it and in upper case, an id of no document,
\* and a string that is no id.
IdsOf(coll) ==
    {StrOid(coll[i]._id) : i \in DOMAIN coll} \cup {UpperOid(coll[i]._id) : i \in DOMAIN coll}
    \cup {StrOid(MaxOid + 2), 1}

Admin(AuthSet, ExpiredSet) ==
    {<<t, e>> : t \in AuthSet, e \in ExpiredSet} \ {<<0, TRUE>>}
Passes(a) == require_admin(a[1], a[2]).code = 200

CreateKelas(AuthSet, ExpiredSet, NameSet) ==
    \E a \in Admin(AuthSet, ExpiredSet) :
    \E nama \in Only(Passes(a), NameSet, "X-A") :
        create_kelas(a[1], a[2], nama)

UpdateKelas(AuthSet, ExpiredSet, NameSet) ==
    \E a \in Admin(AuthSet, ExpiredSet) :
    \E id \in Only(Passes(a), IdsOf(kelas), 1) :
    \E nama \in Only(Passes(a) /\ IsOid(id), NameSet, "X-A") :
        update_kelas(a[1], a[2], id, nama)

DeleteKelas(AuthSet, ExpiredSet) ==
    \E a \in Admin(AuthSet, ExpiredSet) :
    \E id \in Only(Passes(a), IdsOf(kelas), 1) :
        delete_kelas(a[1], a[2], id)

CreateSiswa(AuthSet, ExpiredSet, NisSet) ==
    \E a \in Admin(AuthSet, ExpiredSet) :
    \E id_kelas \in Only(Passes(a), IdsOf(kelas), 1) :
    \E nis \in Only(Passes(a) /\ IsOid(id_kelas), NisSet, "1001") :
        create_siswa(a[1], a[2], nis, "Budi", id_kelas)

UpdateSiswa(AuthSet, ExpiredSet, NisSet) ==
    \E a \in Admin(AuthSet, ExpiredSet) :
    \E id_kelas \in Only(Passes(a), IdsOf(kelas), 1) :
    \E id \in Only(Passes(a) /\ IsOid(id_kelas), IdsOf(siswa), 1) :
    \E nis \in Only(Passes(a) /\ IsOid(id_kelas) /\ IsOid(id), NisSet, "1001") :
        update_siswa(a[1], a[2], id, nis, "Budi", id_kelas)

DeleteSiswa(AuthSet, ExpiredSet) ==
    \E a \in Admin(AuthSet, ExpiredSet) :
    \E id \in Only(Passes(a), IdsOf(siswa), 1) :
        delete_siswa(a[1], a[2], id)

\* The roster: the classes and students an admin creates, changes and
\* deletes, and the check-ins of those students.
NextRoster ==
    \/ Login
    \/ CreateKelas({1}, {FALSE}, {"X-A", "X-B"})
    \/ UpdateKelas({1}, {FALSE}, {"X-A", "X-B"})
    \/ DeleteKelas({1}, {FALSE})
    \/ CreateSiswa({1}, {FALSE}, {"1001", "1002"})
    \/ UpdateSiswa({1}, {FALSE}, {"1001", "1002"})
    \/ DeleteSiswa({1}, {FALSE})
    \/ CheckIn({"1001", "1002"}, {Iso(1)}, {"07:00"})

SpecRoster == Init /\ [][NextRoster]_vars

\* The report: the records of two students of two classes, marked by
\* check-in and by the admin, and the rekap of any range, the start given as
\* a day or as a day with a time.
RekapStarts == {1, Iso(1), IsoT(1), Iso(2)}
StatsToday(DaySet) == \E today \in DaySet : stats_today(today)
NextRekap ==
    \/ seed_demo
    \/ StatsToday(IsoDays)
    \/ Login
    \/ CheckIn({"1001", "2001"}, IsoDays, {"07:00"})
    \/ SetStatus({1}, {FALSE}, {"1001", "2001"}, IsoDays, Statuses \ {"Hadir"}, {None},
                 {Iso(1)}, {"07:00"})
    \/ Rekap(AuthInputs, {FALSE}, RekapStarts, IsoDays, {NoId, KelasId("X-B")},
             {None, "1001", "9999"})

SpecRekap == Init /\ [][NextRekap]_vars

\* The sessions: requests with no token, with the token of a login and with
\* a token no login issued, before and after the logout and the expiry of
\* the session, on the guarded handlers and on the public ones.
TokenInputs == 0 .. MaxTokens + 1
Logout(AuthSet) == \E t \in AuthSet : admin_logout(t)
NextAuth ==
    \/ Login
    \/ Logout(TokenInputs)
    \/ CreateKelas(TokenInputs, BOOLEAN, {"X-A"})
    \/ UpdateKelas(TokenInputs, BOOLEAN, {"X-A"})
    \/ DeleteKelas(TokenInputs, BOOLEAN)
    \/ CreateSiswa(TokenInputs, BOOLEAN, {"1001"})
    \/ UpdateSiswa(TokenInputs, BOOLEAN, {"1001"})
    \/ DeleteSiswa(TokenInputs, BOOLEAN)
    \/ SetStatus(TokenInputs, BOOLEAN, {"1001"}, {NoDate}, {"Sakit"}, {None}, {Iso(1)},
                 {"07:00"})
    \/ Rekap(TokenInputs, BOOLEAN, {Iso(1)}, {Iso(1)}, {NoId}, {None})
    \/ CheckIn({"1001"}, {Iso(1)}, {"07:00"})
    \/ StatusToday({NoId}, {Iso(1)})
    \/ StatsToday({Iso(1)})

SpecAuth == Init /\ [][NextAuth]_vars

\* The races: the check-ins of two clients for the same students and days,
\* their reads and upserts in any order, among the admin's status-sets.
CheckInRead(NisSet, DaySet) ==
    \E c \in Clients, nis \in NisSet, today \in DaySet : checkin_read(c, nis, today)
CheckInUpsert(TimeSet) == \E c \in Clients, now \in TimeSet : checkin_upsert(c, now)
CheckInReturn == \E c \in Clients : checkin_return(c)
NextRace ==
    \/ seed_demo
    \/ Login
    \/ CheckInRead({"1001", "2001"}, {Iso(1)})
    \/ CheckInUpsert(Times)
    \/ CheckInReturn
    \/ SetStatus({1}, {FALSE}, {"1001"}, {NoDate}, {"Hadir", "Sakit"}, {None}, {Iso(1)},
                 {"07:00"})

SpecRace == Init /\ [][NextRace]_vars

\* The dates as given: status-sets whose tanggal is a day or a day with a
\* time, stored as the string sent, and the rekap of ranges that end on
\* such strings.
NextDates ==
    \/ seed_demo
    \/ Login
    \/ CheckIn({"1001"}, IsoDays, {"07:00"})
    \/ SetStatus({1}, {FALSE}, {"1001", "2001"}, {Iso(1), IsoT(1), Iso(2)},
                 {"Sakit", "Alpha"}, {None}, {Iso(1)}, {"07:00"})
    \/ Rekap({1}, {FALSE}, {Iso(1), Iso(2)}, {Iso(1), IsoT(1), Iso(2)}, {NoId},
             {None, "1001"})

SpecDates == Init /\ [][NextDates]_vars

\* The ids of the documents of a collection as the API prints them.
PrintedIds(coll) == {StrOid(coll[i]._id) : i \in DOMAIN coll}

DeleteSiswaPrinted(AuthSet, ExpiredSet) ==
    \E a \in Admin(AuthSet, ExpiredSet) :
    \E id \in Only(Passes(a), PrintedIds(siswa), 1) :
        delete_siswa(a[1], a[2], id)

\* The deletes among the check-ins: the admin creates students and deletes
\* them by the id the API printed, while the check-ins of two clients for
\* those students are between their read and their upsert.
NextOrphans ==
    \/ Login
    \/ CreateKelas({1}, {FALSE}, {"X-A"})
    \/ CreateSiswa({1}, {FALSE}, {"1001", "1002"})
    \/ DeleteSiswaPrinted({1}, {FALSE})
    \/ CheckInRead({"1001", "1002"}, {Iso(1)})
    \/ CheckInUpsert({"07:00"})
    \/ CheckInReturn

SpecOrphans == Init /\ [][NextOrphans]_vars

UpdateSiswaPrinted(AuthSet, ExpiredSet, NisSet) ==
    \E a \in Admin(AuthSet, ExpiredSet) :
    \E id_kelas \in Only(Passes(a), PrintedIds(kelas), 1) :
    \E id \in Only(Passes(a) /\ IsOid(id_kelas), PrintedIds(siswa), 1) :
    \E nis \in Only(Passes(a) /\ IsOid(id_kelas) /\ IsOid(id), NisSet, "1001") :
        update_siswa(a[1], a[2], id, nis, "Budi", id_kelas)

DeleteKelasCheck(AuthSet, ExpiredSet) ==
    \E c \in Clients :
    \E a \in Admin(AuthSet, ExpiredSet) :
    \E id \in Only(Passes(a), PrintedIds(kelas), 1) :
        delete_kelas_check(c, a[1], a[2], id)

DeleteKelasDelete == \E c \in Clients : delete_kelas_delete(c)

\* The class deletes among the student writes: classes are deleted and
\* students created, moved and deleted, every id as the API printed it,
\* while the delete of a class is between its reference check and its
\* delete_one.
NextClasses ==
    \/ Login
    \/ CreateKelas({1}, {FALSE}, {"X-A", "X-B"})
    \/ DeleteKelasCheck({1}, {FALSE})
    \/ DeleteKelasDelete
    \/ CreateSiswa({1}, {FALSE}, {"1001", "1002"})
    \/ UpdateSiswaPrinted({1}, {FALSE}, {"1001"})
    \/ DeleteSiswaPrinted({1}, {FALSE})

SpecClasses == Init /\ [][NextClasses]_vars

\* ------------------------------------------------------------ the claims
\* What the claims speak of, stated from the collections alone.
KnownNis(nis) == \E i \in DOMAIN siswa : siswa[i].nis = nis
SidOf(nis) == StrOid(siswa[CHOOSE i \in DOMAIN siswa : siswa[i].nis = nis]._id)
RecordsOf(coll, sid, d) == {i \in DOMAIN coll : coll[i].id_siswa = sid /\ coll[i].tanggal = d}
HadirOf(coll, sid, d) == {i \in RecordsOf(coll, sid, d) : coll[i].status = "Hadir"}
Authorized(r) ==
    /\ ~r.expired
    /\ \E i \in DOMAIN admin_sessions : admin_sessions[i].token = r.authorization
\* The date a set_status request names: today when it gives none.
DateOf(r) == IF r.tanggal = NoDate THEN r.today ELSE r.tanggal
\* Collection b is collection a with one document changed or one appended.
OneDocWritten(a, b) ==
    \/ /\ Len(b) = Len(a)
       /\ Cardinality({i \in DOMAIN a : a[i] # b[i]}) = 1
    \/ /\ Len(b) = Len(a) + 1
       /\ SubSeq(b, 1, Len(a)) = a

\* C2: a check_in of a student whose record of today is Present changes no
\* record and returns the check_in_time that record holds, whatever the
\* clock shows; every repetition is such a step.
C2_CheckInIdempotent ==
    [][(req'.op = "absen_checkin" /\ KnownNis(req'.nis)
        /\ HadirOf(absensi, SidOf(req'.nis), req'.today) # {})
       => /\ resp'.code = 200
          /\ absensi' = absensi
          /\ writes' = <<>>
          /\ \A i \in HadirOf(absensi, SidOf(req'.nis), req'.today) :
                resp'.jam_masuk = absensi[i].jam_masuk]_vars

C2_Witness ==
    /\ req.op = "absen_checkin"
    /\ resp.code = 200
    /\ resp.message[1] = "Sudah absen hari ini pada"
    /\ resp.jam_masuk # req.now
    /\ \E i \in HadirOf(absensi, SidOf(req.nis), req.today) :
          absensi[i].jam_masuk = resp.jam_masuk

\* C3: a check_in of a student whose record of today is not Present replaces
\* it: afterwards the one record of (student, today) is Present with the
\* clock time of the check_in, and no other record changed.
C3_CheckInSupersedes ==
    [][(req'.op = "absen_checkin" /\ KnownNis(req'.nis)
        /\ RecordsOf(absensi, SidOf(req'.nis), req'.today) # {}
        /\ HadirOf(absensi, SidOf(req'.nis), req'.today) = {})
       => /\ resp'.code = 200
          /\ resp'.jam_masuk = req'.now
          /\ Len(absensi') = Len(absensi)
          /\ Cardinality(RecordsOf(absensi', SidOf(req'.nis), req'.today)) = 1
          /\ \A i \in DOMAIN absensi :
                IF i \in RecordsOf(absensi, SidOf(req'.nis), req'.today)
                THEN /\ absensi'[i].status = "Hadir"
                     /\ Get(absensi'[i], "jam_masuk", None) = req'.now
                ELSE absensi'[i] = absensi[i]]_vars

C3_Witness ==
    /\ req.op = "absen_checkin"
    /\ resp.code = 200
    /\ resp.message = <<"Absensi berhasil">>
    /\ writes = <<W("absensi", "update_one", TRUE)>>
    /\ \E i \in RecordsOf(absensi, SidOf(req.nis), req.today) :
          absensi[i].status = "Hadir" /\ absensi[i].jam_masuk = req.now

\* C4 as stated: every check_in that does not fail performs exactly one
\* write, and one that fails with NotFound performs none and changes nothing.
C4_AsStated ==
    [][req'.op = "absen_checkin"
       => /\ resp'.code = 404 <=> ~KnownNis(req'.nis)
          /\ resp'.code = 200 => Len(writes') = 1 /\ OneDocWritten(absensi, absensi')
          /\ resp'.code = 404 => writes' = <<>> /\ store' = store]_vars

\* C4: a check_in that does not fail performs exactly one write when the
\* student has no Present record of today and no write at all when the
\* student has one; a check_in of an unknown nis fails with NotFound,
\* performs no write and leaves classes, students and records unchanged.
C4_CheckInWrites ==
    [][req'.op = "absen_checkin"
       => /\ kelas' = kelas /\ siswa' = siswa
          /\ IF ~KnownNis(req'.nis)
             THEN resp'.code = 404 /\ writes' = <<>> /\ absensi' = absensi
             ELSE IF HadirOf(absensi, SidOf(req'.nis), req'.today) # {}
             THEN resp'.code = 200 /\ writes' = <<>> /\ absensi' = absensi
             ELSE /\ resp'.code = 200
                  /\ Len(writes') = 1
                  /\ writes'[1].coll = "absensi"
                  /\ OneDocWritten(absensi, absensi')]_vars

C4_Witness ==
    /\ req.op = "absen_checkin"
    /\ resp.code = 200
    /\ writes = <<>>
    /\ HadirOf(absensi, SidOf(req.nis), req.today) # {}

\* The record of (student, date) a successful set_status request left, and
\* the one it found (NoDoc when it found none).
Written(r) == absensi'[CHOOSE i \in DOMAIN absensi' :
                          i \in RecordsOf(absensi', SidOf(r.nis), DateOf(r))]
Found(r) ==
    LET R == RecordsOf(absensi, SidOf(r.nis), DateOf(r))
    IN  IF R = {} THEN NoDoc ELSE absensi[CHOOSE i \in R : TRUE]
SameTime(a, b) ==
    /\ "jam_masuk" \in DOMAIN a <=> "jam_masuk" \in DOMAIN b
    /\ "jam_masuk" \in DOMAIN a => a.jam_masuk = b.jam_masuk

\* C5 as stated: with Present the stored check_in_time is the provided value,
\* or the current time when none is provided; with another status it is the
\* provided value, or else left as it was.
C5_AsStated ==
    [][(req'.op = "set_status" /\ resp'.code = 200)
       => \E new \in {Written(req')} : \E old \in {Found(req')} :
            IF req'.jam_masuk # None
            THEN new.jam_masuk = req'.jam_masuk
            ELSE IF req'.status = "Hadir"
            THEN new.jam_masuk = req'.now
            ELSE IF old = NoDoc
            THEN "jam_masuk" \notin DOMAIN new
            ELSE SameTime(new, old)]_vars

\* C5: with Present the stored check_in_time is the provided value when that
\* is not empty, and the current time when none or an empty one is provided;
\* with another status it is the provided value (an empty one included), or
\* else left as it was: absent on a new record, the previous value on an
\* existing one.
C5_CheckInTimePolicy ==
    [][(req'.op = "set_status" /\ resp'.code = 200)
       => \E new \in {Written(req')} : \E old \in {Found(req')} :
            IF req'.status = "Hadir"
            THEN new.jam_masuk = IF req'.jam_masuk \in {None, ""}
                                 THEN req'.now ELSE req'.jam_masuk
            ELSE IF req'.jam_masuk # None
            THEN new.jam_masuk = req'.jam_masuk
            ELSE IF old = NoDoc
            THEN "jam_masuk" \notin DOMAIN new
            ELSE SameTime(new, old)]_vars

C5_Witness ==
    /\ req.op = "set_status"
    /\ resp.code = 200
    /\ req.status = "Hadir"
    /\ req.jam_masuk = ""
    /\ \E i \in RecordsOf(absensi, SidOf(req.nis), DateOf(req)) :
          absensi[i].jam_masuk = req.now

\* C6: a set_status of a known student by an admin succeeds whatever record
\* it finds, and leaves exactly one record of (student, date), with the
\* status given and no other record changed; a set_status of an unknown nis
\* fails with NotFound and writes nothing.
C6_LastWriterWins ==
    [][(req'.op = "set_status" /\ Authorized(req'))
       => IF KnownNis(req'.nis)
          THEN /\ resp'.code = 200
               /\ Cardinality(RecordsOf(absensi', SidOf(req'.nis), DateOf(req'))) = 1
               /\ Written(req').status = req'.status
               /\ OneDocWritten(absensi, absensi') \/ absensi' = absensi
               /\ \A i \in DOMAIN absensi :
                     i \notin RecordsOf(absensi, SidOf(req'.nis), DateOf(req'))
                     => absensi'[i] = absensi[i]
          ELSE /\ resp'.code = 404
               /\ writes' = <<>>
               /\ store' = store]_vars

C6_Witness ==
    /\ req.op = "set_status"
    /\ resp.code = 200
    /\ req.status # "Hadir"
    /\ writes = <<W("absensi", "update_one", TRUE)>>
    /\ \E i \in RecordsOf(absensi, SidOf(req.nis), DateOf(req)) :
          absensi[i].status = req.status /\ Get(absensi[i], "jam_masuk", None) \in Times

\* The students project_today lists, and the records of today of one.
Listed(r) ==
    LET InClass(x) == r.id_kelas = NoId \/ x.id_kelas = r.id_kelas
    IN  SelectSeq(siswa, InClass)
TodayOf(r, x) == RecordsOf(absensi, StrOid(x._id), r.today)

\* C7 as stated: project_today returns one row per student of the class
\* asked for, "Not yet checked in" exactly when the student has no record of
\* today, "Checked in at" the check_in_time when the record is Present, the
\* status label when it is Sick or Excused.
C7_ProjectToday ==
    req.op = "status_today"
    => /\ Len(resp.data) = Len(Listed(req))
       /\ \A n \in DOMAIN resp.data :
            LET row == resp.data[n]
                R == TodayOf(req, Listed(req)[n])
            IN  /\ row.nis = Listed(req)[n].nis
                /\ row.status_hari_ini = <<"Belum Absen">> <=> R = {}
                /\ \A i \in R :
                     /\ absensi[i].status = "Hadir"
                        => row.status_hari_ini = <<"Sudah Absen pukul", absensi[i].jam_masuk>>
                     /\ absensi[i].status \in {"Sakit", "Izin"}
                        => row.status_hari_ini = <<absensi[i].status>>

\* C8 as stated: a student whose record of today has stored status Absent is
\* shown with the Absent label, not as "Not yet checked in".
C8_AbsentLabel ==
    req.op = "status_today"
    => \A n \in DOMAIN resp.data :
         \A i \in TodayOf(req, Listed(req)[n]) :
            absensi[i].status = "Alpha" => resp.data[n].status_hari_ini = <<"Alpha">>

\* C1: the attendance store never holds two records of one (student_id,
\* date) pair, whatever check_in and set_status calls were made.
C1_OneRecordPerStudentDay ==
    \A i, j \in DOMAIN absensi :
        (absensi[i].id_siswa = absensi[j].id_siswa /\ absensi[i].tanggal = absensi[j].tanggal)
        => i = j

C1_Witness ==
    /\ req.op \in {"absen_checkin", "set_status"}
    /\ writes = <<W("absensi", "update_one", TRUE)>>
    /\ Len(absensi) = MaxAbsensi
    /\ \E i, j \in DOMAIN absensi : absensi[i].id_siswa # absensi[j].id_siswa

\* The students a rekap request resolves, the days of its range, and the
\* records of a student dated on a day of the range.
Resolved(r) ==
    LET InFilter(x) == /\ r.id_kelas = NoId \/ x.id_kelas = r.id_kelas
                       /\ r.nis = None \/ x.nis = r.nis
    IN  SelectSeq(siswa, InFilter)
RangeDays(r) == FromIso(r.start) .. FromIso(r.end)
InRangeOf(r, x, S) ==
    {i \in DOMAIN absensi : /\ absensi[i].id_siswa = StrOid(x._id)
                            /\ absensi[i].status \in S
                            /\ \E d \in RangeDays(r) : absensi[i].tanggal = Iso(d)}

\* C9 as stated: every student's Absent count in rekap(start, end) is
\* max(0, total_days - the number of distinct days of [start, end] with a
\* Present, Sick or Excused record of the student), total_days the inclusive
\* day count; a stored Absent record neither counts nor takes its day away.
C9_DerivedAbsent ==
    (req.op = "laporan_rekap" /\ resp.code = 200)
    => /\ Len(resp.data) = Len(Resolved(req))
       /\ \A n \in DOMAIN resp.data :
            resp.data[n].Alpha =
                Max(0, Cardinality(RangeDays(req))
                       - Cardinality({absensi[i].tanggal :
                             i \in InRangeOf(req, Resolved(req)[n], {"Hadir", "Sakit", "Izin"})}))

\* C10 as stated: every student's Present, Sick and Excused counters in
\* rekap(start, end) are the numbers of the student's records of that status
\* dated in [start, end], both endpoints included; records outside the range
\* and records of other students count nowhere.
C10_StatusCounters ==
    (req.op = "laporan_rekap" /\ resp.code = 200)
    => /\ Len(resp.data) = Len(Resolved(req))
       /\ \A n \in DOMAIN resp.data :
            /\ resp.data[n].nis = Resolved(req)[n].nis
            /\ \A st \in {"Hadir", "Sakit", "Izin"} :
                 resp.data[n][st] = Cardinality(InRangeOf(req, Resolved(req)[n], {st}))

\* C11: a rekap by an admin whose dates parse fails with the invalid-range
\* error, and returns no rows, exactly when end_date < start_date; with a
\* valid range it fails with NotFound, and returns no rows, whenever a nis
\* is given and no student matches the filter; and every rekap, failed or
\* not, leaves classes, students and attendance records unchanged.
C11_RekapErrors ==
    [][req'.op = "laporan_rekap"
       => /\ store' = store
          /\ (Authorized(req') /\ CanParse(req'.start) /\ CanParse(req'.end))
             => /\ FromIso(req'.end) < FromIso(req'.start)
                   <=> (resp'.code = 400 /\ resp'.detail = "Rentang tanggal tidak valid")
                /\ (/\ FromIso(req'.end) >= FromIso(req'.start)
                    /\ req'.nis \notin {None, ""}
                    /\ Resolved(req') = <<>>)
                   => (resp'.code = 404 /\ resp'.detail = "Siswa tidak ditemukan")
                /\ resp'.code # 200 => "data" \notin DOMAIN resp']_vars

C11_Witness ==
    /\ req.op = "laporan_rekap"
    /\ resp.code = 404
    /\ KnownNis(req.nis)
    /\ req.id_kelas # NoId
    /\ absensi # <<>>

\* The records of a day with a status, in the whole store.
OnDay(d, st) == {i \in DOMAIN absensi : absensi[i].tanggal = d /\ absensi[i].status = st}

\* C12: stats_today reports total = the number of students, Present, Sick
\* and Excused = the numbers of today's records of that status in the whole
\* store, and Absent = max(0, total - (Present + Sick + Excused)); stored
\* Absent records of today are not counted.
C12_StatsToday ==
    req.op = "stats_today"
    => /\ resp.total = Len(siswa)
       /\ resp.hadir = Cardinality(OnDay(req.today, "Hadir"))
       /\ resp.sakit = Cardinality(OnDay(req.today, "Sakit"))
       /\ resp.izin = Cardinality(OnDay(req.today, "Izin"))
       /\ resp.alpha = Max(0, Len(siswa) - Cardinality(OnDay(req.today, "Hadir")
                                                       \cup OnDay(req.today, "Sakit")
                                                       \cup OnDay(req.today, "Izin")))

C12_Witness ==
    /\ req.op = "stats_today"
    /\ resp.total = 4
    /\ resp.hadir = 1
    /\ resp.alpha = 3
    /\ OnDay(req.today, "Alpha") # {}


\* ------------------------------------------------------------- the roster
\* The class a stored id_kelas string denotes, as the handlers resolve it
\* (objid of the string); students whose id_kelas denotes class k.
StudentsOf(coll, k) ==
    {i \in DOMAIN coll : IsOid(coll[i].id_kelas) /\ objid(coll[i].id_kelas) = k}
HasDoc(coll, k) == \E i \in DOMAIN coll : coll[i]._id = k

\* C13: an authorised delete of a class that at least one student references
\* is refused with "Kelas digunakan oleh data siswa" and leaves the classes
\* and the students unchanged; a class is removed only when no student
\* references it.
C13_DeleteKelasGuard ==
    [][(req'.op = "delete_kelas" /\ Authorized(req') /\ IsOid(req'.kelas_id))
       => /\ StudentsOf(siswa, objid(req'.kelas_id)) # {}
             => /\ resp'.code = 400
                /\ resp'.detail = "Kelas digunakan oleh data siswa"
                /\ kelas' = kelas
                /\ siswa' = siswa
          /\ kelas' # kelas => StudentsOf(siswa, objid(req'.kelas_id)) = {}
          /\ siswa' = siswa]_vars


\* The attendance records of the student with id k, whatever the case their
\* id_siswa string is written in.
AbsensiOf(coll, k) == SelectSeq(coll, LAMBDA a : IsOid(a.id_siswa) /\ objid(a.id_siswa) = k)
AbsensiNotOf(coll, k) == SelectSeq(coll, LAMBDA a : ~(IsOid(a.id_siswa) /\ objid(a.id_siswa) = k))

\* C14: after a successful delete of student S no attendance record of S
\* remains, and the attendance records of the other students are unchanged.
C14_DeleteSiswaCascade ==
    [][(req'.op = "delete_siswa" /\ resp'.code = 200)
       => /\ AbsensiOf(absensi', objid(req'.siswa_id)) = <<>>
          /\ AbsensiNotOf(absensi', objid(req'.siswa_id))
                = AbsensiNotOf(absensi, objid(req'.siswa_id))
          /\ ~HasDoc(siswa', objid(req'.siswa_id))]_vars


\* No two documents of the collection hold the same value of the field.
Unique(coll, field) ==
    \A i, j \in DOMAIN coll : coll[i][field] = coll[j][field] => i = j

\* C15: class names stay unique through every create and update of a class,
\* and a create or an update that gives a second class a name in use is
\* refused with a 400 and leaves the store unchanged.
C15_KelasNameUnique ==
    [][(req'.op \in {"create_kelas", "update_kelas"} /\ Unique(kelas, "nama_kelas"))
       => /\ Unique(kelas', "nama_kelas")
          /\ (/\ Authorized(req')
              /\ \E i \in DOMAIN kelas :
                    /\ kelas[i].nama_kelas = req'.nama_kelas
                    /\ req'.op = "update_kelas"
                       => (IsOid(req'.kelas_id) /\ HasDoc(kelas, objid(req'.kelas_id))
                           /\ kelas[i]._id # objid(req'.kelas_id)))
             => (resp'.code = 400 /\ store' = store)]_vars


\* C16: nis stays unique across the students through every create and update
\* of a student, and a create or an update that gives a second student a nis
\* in use is refused with a 400 and leaves the store unchanged.
C16_NisUnique ==
    [][(req'.op \in {"create_siswa", "update_siswa"} /\ Unique(siswa, "nis"))
       => /\ Unique(siswa', "nis")
          /\ (/\ Authorized(req')
              /\ IsOid(req'.id_kelas) /\ HasDoc(kelas, objid(req'.id_kelas))
              /\ \E i \in DOMAIN siswa :
                    /\ siswa[i].nis = req'.nis
                    /\ req'.op = "update_siswa"
                       => (IsOid(req'.siswa_id) /\ siswa[i]._id # objid(req'.siswa_id)))
             => (/\ resp'.code = 400
                 /\ resp'.detail \in {"NIS sudah terdaftar", "NIS sudah terpakai oleh siswa lain"}
                 /\ store' = store)]_vars

\* An update was refused because another student holds the nis, while the
\* request named an existing student and an existing class.
C16_Witness ==
    /\ req.op = "update_siswa"
    /\ resp.code = 400
    /\ resp.detail = "NIS sudah terpakai oleh siswa lain"
    /\ HasDoc(siswa, objid(req.siswa_id))
    /\ Len(siswa) = 2
    /\ Unique(siswa, "nis")


\* ------------------------------------------------------------ the sessions
Guarded ==
    {"create_kelas", "update_kelas", "delete_kelas", "create_siswa", "update_siswa",
     "delete_siswa", "set_status", "laporan_rekap"}
Public == {"absen_checkin", "status_today", "stats_today"}
SessionOf(coll, t) == \E i \in DOMAIN coll : coll[i].token = t

\* C17: a guarded request (class and student create/update/delete, set_status,
\* rekap) gets past the guard only with the token of a session that a login
\* issued and that is neither logged out nor expired; any other guarded
\* request is answered 401 and changes no class, student or attendance
\* record; sessions come from logins only, and a logout or a detected expiry
\* ends the session; check-in and the status/stats reads of today are never
\* answered 401.
C17_AdminOnly ==
    [][/\ (req'.op \in Guarded /\ ~Authorized(req'))
          => (resp'.code = 401 /\ store' = store)
       /\ (req'.op \in Guarded /\ Authorized(req')) => resp'.code # 401
       /\ req'.op \in Public => (resp'.code # 401 /\ "authorization" \notin DOMAIN req')
       /\ req'.op # "admin_login"
          => \A i \in DOMAIN admin_sessions' : SessionOf(admin_sessions, admin_sessions'[i].token)
       /\ \A i \in DOMAIN admin_sessions' : admin_sessions'[i].token \in 1 .. tokens'
       /\ req'.op = "admin_logout" => ~SessionOf(admin_sessions', req'.authorization)
       /\ (req'.op \in Guarded /\ req'.expired)
          => ~SessionOf(admin_sessions', req'.authorization)]_vars

\* The token of a login, after its session ended, is refused on a delete of
\* an existing student, and the student is still there.
C17_Witness ==
    /\ req.op = "delete_siswa"
    /\ req.authorization = 1
    /\ ~req.expired
    /\ tokens = 1
    /\ resp.code = 401
    /\ resp.detail = "Session invalid"
    /\ siswa # <<>>


\* --------------------------------------------------------------- the races
\* The clients whose check-in for the key was answered with success, and
\* those of them whose check-in wrote the record.
Answered(key) ==
    {c \in Clients : /\ inflight[c].pc = "done"
                     /\ inflight[c].code = 200
                     /\ inflight[c].id_siswa = key.id_siswa
                     /\ inflight[c].tanggal = key.tanggal}
Wrote(key) == {c \in Answered(key) : inflight[c].wrote}
KeyOf(a) == [id_siswa |-> a.id_siswa, tanggal |-> a.tanggal]

\* C18: whatever the order of the reads and upserts of concurrent check-ins
\* for one student and day, and of the status-sets among them, the store
\* holds at most one record of a (student, date).
C18_OneRecordUnderRaces ==
    \A i \in DOMAIN absensi : Cardinality({j \in DOMAIN absensi : KeyOf(absensi[j]) = KeyOf(absensi[i])}) = 1

\* Two check-ins of one student and day both found no record, both wrote,
\* at different times, and one record is stored.
C18_Witness ==
    /\ Len(absensi) = 1
    /\ \E c, d \in Wrote(KeyOf(absensi[1])) : inflight[c].jam_masuk # inflight[d].jam_masuk

\* C19: the time a successful check-in returned is the time the record
\* keeps: while the record is a Hadir record holding the time returned to a
\* caller, the upsert of another check-in for that student and day does
\* not replace that time by a different one.
C19_NoDivergence ==
    [][req'.op = "checkin_upsert"
       => \A c \in Clients \ {req'.client} : \A i \in DOMAIN absensi :
             (/\ c \in Answered(KeyOf(absensi[i]))
              /\ absensi[i].status = "Hadir"
              /\ Get(absensi[i], "jam_masuk", None) = inflight[c].jam_masuk)
             => Get(absensi'[i], "jam_masuk", None) = inflight[c].jam_masuk]_vars


\* ------------------------------------------------------- the rekap totals
\* The number of days of the range of a rekap request, both ends included.
TotalDays(r) == FromIso(r.end) - FromIso(r.start) + 1

\* C20: in a store with at most one record of a (student, date), every row
\* of a rekap has Hadir + Sakit + Izin + Alpha = the number of days of the
\* range, students with stored Alpha records included, and the days with a
\* Hadir, Sakit or Izin record never outnumber the days of the range (the
\* clamp max(0, ...) is idle).
C20_RowSum ==
    (/\ req.op = "laporan_rekap"
     /\ resp.code = 200
     /\ \A i, j \in DOMAIN absensi : KeyOf(absensi[i]) = KeyOf(absensi[j]) => i = j)
    => \A n \in DOMAIN resp.data :
          LET row == resp.data[n]
          IN  /\ row.Hadir + row.Sakit + row.Izin + row.Alpha = TotalDays(req)
              /\ row.Hadir + row.Sakit + row.Izin <= TotalDays(req)


\* ------------------------------------------------------------- the deletes
\* No check-in is between its read and its upsert.
Quiet == \A c \in Clients : inflight[c].pc # "upsert"

\* C21: once every request has completed, every stored attendance record is
\* the record of a stored student, also when the check-in of a student read
\* the student before a delete of that student and upserted after it.
C21_NoOrphanRecords ==
    Quiet => \A i \in DOMAIN absensi :
                /\ IsOid(absensi[i].id_siswa)
                /\ HasDoc(siswa, objid(absensi[i].id_siswa))


\* No delete of a class is between its reference check and its delete_one.
Settled == \A c \in Clients : inflight[c].pc # "delete_one"

\* C22: once every request has completed, the id_kelas of every stored
\* student is the id of a stored class, also when a student was created in
\* a class, or moved to it, between the reference check and the delete_one
\* of a delete of that class.
C22_NoDanglingClass ==
    Settled => \A i \in DOMAIN siswa :
                  /\ IsOid(siswa[i].id_kelas)
                  /\ HasDoc(kelas, objid(siswa[i].id_kelas))

====
